---- MODULE Spec2Model ----
(***************************************************************************)
(* Model of weather_api/main.py: the Collector loop over STATE_CENTROIDS,  *)
(* the two persistence writes (current_temps.json, weather_history.csv),   *)
(* the boundary-file check and plot_heatmap.  One run of main() is a       *)
(* sequence of steps; Invoke starts the next run of the script with the    *)
(* files of the previous runs left on disk.                                *)
(***************************************************************************)
EXTENDS Integers, Sequences, FiniteSets, TLC

VARIABLES pc, run, results, calls, outcomes, trace, err,
          json_file, csv_file, geojson, india, texts, heatmap_file

vars == <<pc, run, results, calls, outcomes, trace, err,
          json_file, csv_file, geojson, india, texts, heatmap_file>>

\* ---------------------------------------------------------------- bounds
\* Number of registry entries the Collector iterates in the model.
NumRegions == 3
\* Number of consecutive runs of the script.
MaxRuns == 2

\* ---------------------------------------------------------------- helpers
Range(s) == {s[i] : i \in DOMAIN s}

Min(a, b) == IF a < b THEN a ELSE b

\* ---------------------------------------------------------------- registry
\* Keys of STATE_CENTROIDS in insertion order (the coordinates only feed the
\* request parameters).
STATE_CENTROIDS ==
  << "Andhra Pradesh", "Arunachal Pradesh", "Assam", "Bihar", "Chhattisgarh",
     "Delhi", "Goa", "Gujarat", "Haryana", "Himachal Pradesh", "Jharkhand",
     "Karnataka", "Kerala", "Madhya Pradesh", "Maharashtra", "Manipur",
     "Meghalaya", "Mizoram", "Nagaland", "Odisha", "Punjab", "Rajasthan",
     "Sikkim", "Tamil Nadu", "Telangana", "Tripura", "Uttar Pradesh",
     "Uttarakhand", "West Bengal", "Andaman and Nicobar Islands",
     "Chandigarh", "D&D", "Jammu and Kashmir", "Ladakh", "Lakshadweep",
     "Puducherry" >>

\* The entries the loop of main() visits in the model: NumRegions consecutive
\* entries of STATE_CENTROIDS, in registry order, from the first union
\* territory on (the block that holds the aliased "D&D").
FirstUnionTerritory ==
  CHOOSE i \in DOMAIN STATE_CENTROIDS : STATE_CENTROIDS[i] = "Andaman and Nicobar Islands"

Registry ==
  SubSeq(STATE_CENTROIDS, FirstUnionTerritory,
         Min(FirstUnionTerritory + NumRegions - 1, Len(STATE_CENTROIDS)))

\* ---------------------------------------------------------------- readings
\* Temperatures the API reports in the model.
Temps == {28}

Num(t) == [kind |-> "num", val |-> t]
\* math.nan
NaN == [kind |-> "nan", val |-> 0]
\* Python None
None == [kind |-> "none", val |-> 0]

IsNum(v) == v.kind = "num"
IsNaN(v) == v.kind = "nan"

\* ---------------------------------------------------------------- Fetcher
\* What the HTTP exchange of one request can be: requests.get raises, the
\* status is an error, the body is not JSON, or the body is a JSON object.
Responses ==
  {[net |-> "down", status |-> 0,   body |-> "",                   temperature |-> 0],
   [net |-> "ok",   status |-> 500, body |-> "",                   temperature |-> 0],
   [net |-> "ok",   status |-> 200, body |-> "malformed",          temperature |-> 0],
   [net |-> "ok",   status |-> 200, body |-> "no_current_weather", temperature |-> 0],
   [net |-> "ok",   status |-> 200, body |-> "no_temperature",     temperature |-> 0]}
  \cup {[net |-> "ok", status |-> 200, body |-> "temperature", temperature |-> t] : t \in Temps}

Raise(e) == [raised |-> TRUE,  exc |-> e,  val |-> None]
Return(v) == [raised |-> FALSE, exc |-> "", val |-> v]

get_current_temp(resp) ==
  IF resp.net = "down" THEN Raise("ConnectionError")
  ELSE IF resp.status >= 400 THEN Raise("HTTPError")
  ELSE IF resp.body = "malformed" THEN Raise("JSONDecodeError")
  ELSE IF resp.body = "temperature" THEN Return(Num(resp.temperature))
  ELSE Return(None)

\* ---------------------------------------------------------------- Collector
\* results is a Python dict: a sequence of key/value entries in insertion
\* order; assignment overwrites an existing key in place.
DictSet(d, k, v) ==
  IF \E i \in DOMAIN d : d[i].k = k
  THEN [i \in DOMAIN d |-> IF d[i].k = k THEN [k |-> k, v |-> v] ELSE d[i]]
  ELSE Append(d, [k |-> k, v |-> v])

Keys(d) == [i \in DOMAIN d |-> d[i].k]

HasKey(d, k) == \E i \in DOMAIN d : d[i].k = k

DictGet(d, k) == d[CHOOSE i \in DOMAIN d : d[i].k = k].v

\* The format spec ">6" of the progress line raises TypeError on None.
FormatRaises_never(temp) == FALSE

FormatRaises(temp) == temp.kind = "none"

\* except Exception: every exception class the body can raise is caught.
ExceptionClasses == {"ConnectionError", "HTTPError", "JSONDecodeError", "TypeError"}

Caught_network_only(e) == e = "ConnectionError"

Caught(e) == e \in ExceptionClasses

\* The value the except branch records.
OnException_drop(d, state) == d

OnException(d, state) == DictSet(d, state, NaN)

\* The exception, if any, that the try body raises for one region.
TryBody(d, state, resp) ==
  LET r == get_current_temp(resp)
  IN  IF r.raised THEN [raised |-> TRUE, exc |-> r.exc, d |-> d]
      ELSE LET d1 == DictSet(d, state, r.val)
           IN  IF FormatRaises(r.val)
               THEN [raised |-> TRUE, exc |-> "TypeError", d |-> d1]
               ELSE [raised |-> FALSE, exc |-> "", d |-> d1]

\* Whether the loop has visited every registry entry.
LoopDone_early(c) == Len(c) >= Len(Registry) - 1

LoopDone(c) == Len(c) = Len(Registry)

\* ---------------------------------------------------------------- Persistence
\* json.dumps(results, indent=2): one member per dict entry, in dict order;
\* a float prints as a number, math.nan as the token NaN, None as null.
JsonToken(v) ==
  IF v.kind = "num" THEN [t |-> "number", n |-> v.val]
  ELSE IF v.kind = "nan" THEN [t |-> "NaN", n |-> 0]
  ELSE [t |-> "null", n |-> 0]

JsonDumps(d) == [i \in DOMAIN d |-> [key |-> d[i].k, value |-> JsonToken(d[i].v)]]

\* datetime.now(ist).strftime(...): the model's clock is the run number.
Timestamp == run

\* Cells of the history table.
StrCell(s) == [t |-> "str", s |-> s, n |-> 0]
TimeCell(ts) == [t |-> "time", s |-> "", n |-> ts]
\* to_csv writes a number as a number and NaN/None as an empty field.
ValueCell(v) == IF v.kind = "num" THEN [t |-> "num", s |-> "", n |-> v.val]
                ELSE [t |-> "empty", s |-> "", n |-> 0]

\* pd.DataFrame([{"timestamp": timestamp, **results}]): one record, the
\* columns are "timestamp" followed by the keys of results.
RowDf(ts, d) ==
  [columns |-> <<"timestamp">> \o Keys(d),
   values  |-> <<TimeCell(ts)>> \o [i \in DOMAIN d |-> ValueCell(d[i].v)]]

HeaderLine(df) == [kind |-> "header", cells |-> [i \in DOMAIN df.columns |-> StrCell(df.columns[i])]]
DataLine(df) == [kind |-> "data", cells |-> df.values]

\* The history file: absent, or a sequence of lines.
NoCsv == [exists |-> FALSE, rows |-> <<>>]

to_csv(file, df, mode, header) ==
  LET lines == (IF header THEN <<HeaderLine(df)>> ELSE <<>>) \o <<DataLine(df)>>
  IN  [exists |-> TRUE,
       rows   |-> IF mode = "a" /\ file.exists THEN file.rows \o lines ELSE lines]

\* if csv_file.exists(): append without header, else write with header.
WriteHistory_always_header(file, df) ==
  IF file.exists THEN to_csv(file, df, "a", TRUE) ELSE to_csv(file, df, "w", TRUE)

WriteHistory_truncate(file, df) ==
  IF file.exists THEN to_csv(file, df, "w", FALSE) ELSE to_csv(file, df, "w", TRUE)

WriteHistory(file, df) ==
  IF file.exists THEN to_csv(file, df, "a", FALSE) ELSE to_csv(file, df, "w", TRUE)

\* ---------------------------------------------------------------- boundary file
DNHDD == "Dadra and Nagar Haveli and Daman and Diu"

\* Property columns a boundary dataset may carry.
ColumnPool == {"name", "st_nm", "NAME_1"}

\* Feature names of the boundary datasets of the model: an aliased union
\* territory, a region made of two polygons, a name the registry lacks.
OfficialNames == <<DNHDD, "Andaman and Nicobar Islands", "Andaman and Nicobar Islands", "Orissa">>
ShortNames == <<"D&D", "Chandigarh", "Andaman and Nicobar Islands", "Ladakh">>

NoFile == [exists |-> FALSE, columns |-> {}, data |-> [c \in ColumnPool |-> <<>>]]

\* data/india.geojson as the run finds it.
GeoFiles ==
  {NoFile} \cup
  {[exists |-> TRUE, columns |-> cs,
    data |-> [c \in ColumnPool |-> IF (c = "st_nm") = swap THEN OfficialNames ELSE ShortNames]]
     : cs \in SUBSET ColumnPool, swap \in BOOLEAN}

\* ---------------------------------------------------------------- Map Renderer
\* The name column plot_heatmap picks; "" stands for the ValueError branch.
StateNameColumn_fallback(cols) ==
  IF "name" \in cols THEN "name"
  ELSE IF "st_nm" \in cols THEN "st_nm"
  ELSE IF cols # {} THEN CHOOSE c \in cols : TRUE ELSE ""

StateNameColumn(cols) ==
  IF "name" \in cols THEN "name"
  ELSE IF "st_nm" \in cols THEN "st_nm"
  ELSE ""

\* Series.replace({...}): an exact-value lookup, applied once per cell.
Normalize_wrong_alias(n) == IF n = DNHDD THEN "Daman and Diu" ELSE n

Normalize(n) == IF n = DNHDD THEN "D&D" ELSE n

\* dissolve(by="state_name"): one row per distinct state_name (the order of
\* the rows, which no later step depends on, is that of first occurrence).
RECURSIVE Dissolve(_)
Dissolve(names) ==
  IF names = <<>> THEN <<>>
  ELSE LET rest == Dissolve(SubSeq(names, 1, Len(names) - 1))
           last == names[Len(names)]
       IN  IF last \in Range(rest) THEN rest ELSE Append(rest, last)

\* india["state_name"].map(temp_data): a name that is not a key of the dict
\* maps to NaN, and so does a None value.
MapTemp_zero_fill(d, name) ==
  IF HasKey(d, name) /\ IsNum(DictGet(d, name)) THEN DictGet(d, name) ELSE Num(0)

MapTemp(d, name) ==
  IF HasKey(d, name) /\ IsNum(DictGet(d, name)) THEN DictGet(d, name) ELSE NaN

\* india.plot(column="temperature", cmap="YlOrRd", missing_kwds={"color":
\* "lightgrey"}): a NaN row is drawn flat light grey, the others by the scale.
Fill(temperature) == IF IsNaN(temperature) THEN "lightgrey" ELSE "YlOrRd"

\* The row test of the label loop: row["temperature"] is not None.
IsNotNone(temperature) == temperature.kind # "none"

\* The joined frame: state_name, temperature and the fill it is drawn with.
Joined(d, raw) ==
  LET names == Dissolve([i \in DOMAIN raw |-> Normalize(raw[i])])
  IN  [i \in DOMAIN names |->
         LET t == MapTemp(d, names[i])
         IN  [state_name |-> names[i], temperature |-> t, color |-> Fill(t)]]

\* texts: one ax.text per row that passes the row test.
RECURSIVE Labels(_)
Labels(frame) ==
  IF frame = <<>> THEN <<>>
  ELSE LET rest == Labels(SubSeq(frame, 1, Len(frame) - 1))
           row  == frame[Len(frame)]
       IN  IF IsNotNone(row.temperature)
           THEN Append(rest, [state_name |-> row.state_name, temperature |-> row.temperature])
           ELSE rest

\* ---------------------------------------------------------------- the run
Init ==
  /\ pc = "fetch"
  /\ run = 1
  /\ results = <<>>
  /\ calls = <<>>
  /\ outcomes = <<>>
  /\ trace = <<>>
  /\ err = ""
  /\ json_file = <<>>
  /\ csv_file = NoCsv
  /\ geojson = NoFile
  /\ india = <<>>
  /\ texts = <<>>
  /\ heatmap_file = <<>>

\* One iteration of the for loop of main().
Fetch ==
  /\ pc = "fetch"
  /\ ~LoopDone(calls)
  /\ \E resp \in Responses :
       LET state == Registry[Len(calls) + 1]
           r     == get_current_temp(resp)
           t     == TryBody(results, state, resp)
           uncaught == t.raised /\ ~Caught(t.exc)
       IN  /\ calls' = Append(calls, state)
           /\ outcomes' = Append(outcomes, IF r.raised THEN "raised"
                                           ELSE IF IsNum(r.val) THEN "num" ELSE "none")
           /\ results' = IF ~t.raised THEN t.d
                         ELSE IF Caught(t.exc) THEN OnException(t.d, state)
                         ELSE t.d
           /\ pc' = IF uncaught THEN "error"
                    ELSE IF LoopDone(calls') THEN "save_json" ELSE "fetch"
           /\ err' = IF uncaught THEN t.exc ELSE err
  /\ UNCHANGED <<run, trace, json_file, csv_file, geojson, india, texts, heatmap_file>>

\* out_file.write_text(json.dumps(results, indent=2))
SaveJson ==
  /\ pc = "save_json"
  /\ json_file' = << [content |-> JsonDumps(results), run |-> run] >>
  /\ trace' = Append(trace, "json")
  /\ pc' = "append_csv"
  /\ UNCHANGED <<run, results, calls, outcomes, err, csv_file, geojson, india, texts, heatmap_file>>

\* The history row of the run.
AppendCsv ==
  /\ pc = "append_csv"
  /\ csv_file' = WriteHistory(csv_file, RowDf(Timestamp, results))
  /\ trace' = Append(trace, "csv")
  /\ pc' = "check_geojson"
  /\ UNCHANGED <<run, results, calls, outcomes, err, json_file, geojson, india, texts, heatmap_file>>

\* if not geojson_file.exists(): raise FileNotFoundError
CheckGeojsonMissing ==
  /\ pc = "check_geojson"
  /\ \E f \in GeoFiles : ~f.exists /\ geojson' = f
  /\ pc' = "error"
  /\ err' = "FileNotFoundError"
  /\ UNCHANGED <<run, results, calls, outcomes, trace, json_file, csv_file, india, texts, heatmap_file>>

CheckGeojsonFound ==
  /\ pc = "check_geojson"
  /\ \E f \in GeoFiles : f.exists /\ geojson' = f
  /\ pc' = "plot"
  /\ UNCHANGED <<run, results, calls, outcomes, trace, err, json_file, csv_file, india, texts, heatmap_file>>

\* plot_heatmap on a dataset without a "name" or "st_nm" column.
PlotHeatmapNoColumn ==
  /\ pc = "plot"
  /\ StateNameColumn(geojson.columns) = ""
  /\ trace' = Append(trace, "plot")
  /\ pc' = "error"
  /\ err' = "ValueError"
  /\ UNCHANGED <<run, results, calls, outcomes, json_file, csv_file, geojson, india, texts, heatmap_file>>

\* plot_heatmap up to plt.savefig.
PlotHeatmap ==
  /\ pc = "plot"
  /\ StateNameColumn(geojson.columns) # ""
  /\ india' = Joined(results, geojson.data[StateNameColumn(geojson.columns)])
  /\ texts' = Labels(india')
  /\ heatmap_file' = <<run>>
  /\ trace' = trace \o <<"plot", "png">>
  /\ pc' = "done"
  /\ UNCHANGED <<run, results, calls, outcomes, err, json_file, csv_file, geojson>>

\* The script is started again; the files of earlier runs stay on disk.
Invoke ==
  /\ pc \in {"done", "error"}
  /\ run < MaxRuns
  /\ run' = run + 1
  /\ pc' = "fetch"
  /\ results' = <<>>
  /\ calls' = <<>>
  /\ outcomes' = <<>>
  /\ trace' = <<>>
  /\ err' = ""
  /\ geojson' = NoFile
  /\ india' = <<>>
  /\ texts' = <<>>
  /\ UNCHANGED <<json_file, csv_file, heatmap_file>>

Next ==
  \/ Fetch
  \/ SaveJson
  \/ AppendCsv
  \/ CheckGeojsonMissing
  \/ CheckGeojsonFound
  \/ PlotHeatmapNoColumn
  \/ PlotHeatmap
  \/ Invoke

Spec == Init /\ [][Next]_vars

\* ---------------------------------------------------------------- properties
BoundaryErrors == {"FileNotFoundError", "ValueError"}

\* The for loop of the current run has ended normally.
LoopFinished ==
  \/ pc \in {"save_json", "append_csv", "check_geojson", "plot", "done"}
  \/ pc = "error" /\ err \in BoundaryErrors

RunEnded == pc \in {"done", "error"}

DataRows(f) == SelectSeq(f.rows, LAMBDA r : r.kind = "data")
HeaderRows(f) == SelectSeq(f.rows, LAMBDA r : r.kind = "header")

\* The history rows stamped with the current run's timestamp.
RowsOfRun(f) == SelectSeq(f.rows, LAMBDA r : r.kind = "data" /\ r.cells[1] = TimeCell(run))

JsonWrittenThisRun == json_file # <<>> /\ json_file[1].run = run

NameColumns == {"name", "st_nm"}

\* C1: when the Collector loop finishes, the keys of the Snapshot are exactly
\* the registry's region names, each once, whatever subset of fetches raised.
C1_SnapshotKeysAreRegistry ==
  LoopFinished =>
    /\ Range(Keys(results)) = Range(Registry)
    /\ Len(results) = Cardinality(Range(Registry))

C1_Witness ==
  /\ LoopFinished
  /\ "raised" \in Range(outcomes)
  /\ "num" \in Range(outcomes)
  /\ Range(Keys(results)) = Range(Registry)

\* C2: when the Collector loop finishes, every Snapshot value is a number or
\* NaN, never None or absent, for a numeric reading, a raised exception and a
\* response without the temperature field alike.
C2_ValuesNumberOrNaN ==
  LoopFinished =>
    /\ \A i \in DOMAIN results : results[i].v.kind \in {"num", "nan"}
    /\ \A i \in DOMAIN Registry : HasKey(results, Registry[i])
    /\ \A i \in DOMAIN outcomes :
         /\ outcomes[i] \in {"raised", "none"} => IsNaN(DictGet(results, calls[i]))
         /\ outcomes[i] = "num" => IsNum(DictGet(results, calls[i]))

C2_Witness ==
  /\ LoopFinished
  /\ {"raised", "none", "num"} \subseteq Range(outcomes)
  /\ \A i \in DOMAIN results : results[i].v.kind \in {"num", "nan"}

\* C3: if every region's fetch raises, every Snapshot value is NaN, none of
\* those failures aborts the run, and the run writes both the snapshot file
\* and the history file.
C3_AllFetchesFail ==
  (Range(outcomes) \subseteq {"raised"}) =>
    /\ \A i \in DOMAIN results : IsNaN(results[i].v)
    /\ Len(results) = Len(calls)
    /\ pc = "error" => err \in BoundaryErrors
    /\ RunEnded => /\ outcomes = [i \in DOMAIN Registry |-> "raised"]
                   /\ JsonWrittenThisRun
                   /\ Len(RowsOfRun(csv_file)) = 1

C3_Witness ==
  /\ pc = "done"
  /\ outcomes = [i \in DOMAIN Registry |-> "raised"]
  /\ \A i \in DOMAIN results : IsNaN(results[i].v)
  /\ JsonWrittenThisRun
  /\ Len(RowsOfRun(csv_file)) = 1

\* C4: each run adds exactly one data row to the history file; the header is
\* written only by the run that finds the file absent and precedes the first
\* data row; every row has 1 + N columns, N the number of registry regions.
C4_Shape ==
  /\ ~csv_file.exists => csv_file.rows = <<>>
  /\ csv_file.exists =>
       /\ Len(csv_file.rows) >= 2
       /\ csv_file.rows[1].kind = "header"
       /\ \A i \in 2..Len(csv_file.rows) : csv_file.rows[i].kind = "data"
  /\ \A i \in DOMAIN csv_file.rows : Len(csv_file.rows[i].cells) = 1 + Len(Registry)
  /\ Len(DataRows(csv_file)) = (run - 1) + (IF "csv" \in Range(trace) THEN 1 ELSE 0)

C4_Step ==
  /\ csv_file' # csv_file =>
       /\ pc = "append_csv"
       /\ Len(DataRows(csv_file')) = Len(DataRows(csv_file)) + 1
       /\ Len(HeaderRows(csv_file')) =
            Len(HeaderRows(csv_file)) + (IF csv_file.exists THEN 0 ELSE 1)
  /\ (pc = "append_csv" /\ pc' # pc) => csv_file' # csv_file

C4_HistoryRows == [](C4_Shape) /\ [][C4_Step]_vars

C4_Witness ==
  /\ run >= 2
  /\ "csv" \in Range(trace)
  /\ Len(csv_file.rows) = run + 1
  /\ csv_file.rows[1].kind = "header"

\* C5: a missing boundary file, or a dataset with neither a "name" nor an
\* "st_nm" column, ends the run in an error with no image written in that
\* run, the missing file before plot_heatmap is called; nothing else, fetch
\* failures included, ends a run in an error.
C5_BoundaryFatal ==
  /\ (RunEnded /\ ~geojson.exists) =>
       /\ pc = "error" /\ err = "FileNotFoundError"
       /\ "plot" \notin Range(trace)
       /\ heatmap_file # <<run>>
  /\ (RunEnded /\ geojson.exists /\ geojson.columns \cap NameColumns = {}) =>
       /\ pc = "error" /\ err = "ValueError"
       /\ heatmap_file # <<run>>
  /\ pc = "error" =>
       /\ err \in BoundaryErrors
       /\ ~geojson.exists \/ geojson.columns \cap NameColumns = {}
  /\ heatmap_file = <<run>> =>
       geojson.exists /\ geojson.columns \cap NameColumns # {}

C5_Witness ==
  /\ pc = "error"
  /\ err = "FileNotFoundError"
  /\ ~geojson.exists
  /\ run >= 2
  /\ heatmap_file = <<run - 1>>

\* C6: the renderer draws exactly one label for each boundary region with a
\* reading and none for a region whose joined temperature is missing.
C6_LabelsOnlyForReadings ==
  pc = "done" =>
    \A i \in DOMAIN india :
      LET n == Cardinality({j \in DOMAIN texts : texts[j].state_name = india[i].state_name})
      IN  IF IsNum(india[i].temperature) THEN n = 1 ELSE n = 0

\* C7: after the join a region is drawn flat light grey iff its joined
\* temperature is missing, and by the temperature scale iff the Snapshot
\* holds a number for its normalized name.
C7_FillTreatment ==
  pc = "done" =>
    /\ {india[i].state_name : i \in DOMAIN india} =
         {Normalize(n) : n \in Range(geojson.data[StateNameColumn(geojson.columns)])}
    /\ \A i \in DOMAIN india :
         LET r == india[i]
             numeric == HasKey(results, r.state_name) /\ IsNum(DictGet(results, r.state_name))
         IN  /\ r.color \in {"lightgrey", "YlOrRd"}
             /\ r.color = "lightgrey" <=> IsNaN(r.temperature)
             /\ r.color = "YlOrRd" <=> numeric
             /\ numeric => r.temperature = DictGet(results, r.state_name)

C7_Witness ==
  /\ pc = "done"
  /\ Cardinality({i \in DOMAIN results : IsNum(results[i].v)}) = 1
  /\ Cardinality({i \in DOMAIN india : india[i].color = "YlOrRd"}) = 1
  /\ \E i \in DOMAIN india :
       /\ india[i].color = "lightgrey"
       /\ HasKey(results, india[i].state_name)
  /\ \E i \in DOMAIN india :
       /\ india[i].color = "lightgrey"
       /\ ~HasKey(results, india[i].state_name)

\* C8: the rename is idempotent on every boundary name, and the renamed
\* union territory's normalized name is a key of the registry.
C8_NormalizeIdempotent ==
  pc = "done" =>
    LET raw == geojson.data[StateNameColumn(geojson.columns)]
    IN  /\ \A i \in DOMAIN india : Normalize(india[i].state_name) = india[i].state_name
        /\ \A j \in DOMAIN raw :
             /\ Normalize(Normalize(raw[j])) = Normalize(raw[j])
             /\ raw[j] = DNHDD =>
                  /\ Normalize(raw[j]) \in Range(STATE_CENTROIDS)
                  /\ HasKey(results, Normalize(raw[j]))

C8_Witness ==
  /\ pc = "done"
  /\ DNHDD \in Range(geojson.data[StateNameColumn(geojson.columns)])
  /\ \E i \in DOMAIN india : india[i].state_name = "D&D" /\ IsNum(india[i].temperature)

\* C9: the Fetcher is called once per registry region, in registry order,
\* failed or not; no file is written before the last fetch has ended, then
\* the snapshot file, then the history row, then the rendering.
C9_SequentialRun ==
  /\ calls = SubSeq(Registry, 1, Len(calls))
  /\ Len(outcomes) = Len(calls)
  /\ LoopFinished => calls = Registry
  /\ \E k \in 0..4 : trace = SubSeq(<<"json", "csv", "plot", "png">>, 1, k)
  /\ trace # <<>> => calls = Registry
  /\ JsonWrittenThisRun <=> "json" \in Range(trace)
  /\ Len(RowsOfRun(csv_file)) = (IF "csv" \in Range(trace) THEN 1 ELSE 0)
  /\ heatmap_file = <<run>> <=> "png" \in Range(trace)

C9_Witness ==
  /\ pc = "done"
  /\ "raised" \in Range(outcomes)
  /\ calls = Registry
  /\ trace = <<"json", "csv", "plot", "png">>

\* C10: a run that ends on a missing boundary file or an unrecognized
\* boundary schema has already overwritten the snapshot file with its own
\* Snapshot and appended exactly one row to the history file.
C10_FatalAfterPersistence ==
  (pc = "error" /\ err \in BoundaryErrors) =>
    /\ JsonWrittenThisRun
    /\ Len(json_file[1].content) = Len(results)
    /\ \A i \in DOMAIN results :
         LET m == json_file[1].content[i]
         IN  /\ m.key = results[i].k
             /\ IsNum(results[i].v) => m.value = [t |-> "number", n |-> results[i].v.val]
             /\ IsNaN(results[i].v) => m.value.t = "NaN"
    /\ Len(RowsOfRun(csv_file)) = 1
    /\ csv_file.rows[Len(csv_file.rows)].cells[1] = TimeCell(run)
    /\ Len(DataRows(csv_file)) = run

C10_Witness ==
  /\ pc = "error"
  /\ err = "ValueError"
  /\ run >= 2
  /\ JsonWrittenThisRun
  /\ Len(DataRows(csv_file)) = run

====
